---- MODULE Spec2Model ----
(***************************************************************************)
(* Retrieval Strategy Engine of rag-qa-bedrock-faiss: the six retrieval    *)
(* strategies of retrieval_strategies.py and the RetrieverManager of       *)
(* utils.py, as a state machine.                                           *)
(*                                                                         *)
(* A passage is a number in Docs; Fingerprint(d) is its deduplication key   *)
(* page_content[:100] and Metadata(d) its metadata mapping.  The texts sent *)
(* to the Vector Index and the texts the Language Model Client returns are  *)
(* sequences of tokens, so that strip() and split('\n') are computed.       *)
(* Floats are integers (weights in tenths) or the value NaN.                *)
(***************************************************************************)
EXTENDS Integers, Sequences, FiniteSets, TLC

\* ---------------------------------------------------------------- bounds

\* Largest k a caller asks for (k ranges over 1..MaxK).
MaxK == 3

\* Largest number of entries logged, and of events of the monitor.
MaxQueries == 3

\* Number of passages that exist (Docs = 1..NumDocs).
NumDocs == 3

\* ------------------------------------------------------- sequence helpers

Min(a, b) == IF a <= b THEN a ELSE b

Range(s) == {s[i] : i \in 1..Len(s)}

\* Python's s[:n] for n >= 0.
Prefix(s, n) == SubSeq(s, 1, Min(n, Len(s)))

ReverseSeq(s) == [i \in 1..Len(s) |-> s[Len(s) + 1 - i]]

\* Sequences over S without repetition, of length at most n.
InjSeqs(S, n) ==
    UNION {{s \in [1..m -> S] : Cardinality(Range(s)) = m} : m \in 0..n}

\* ------------------------------------------------------------ the corpus

Docs == 1..NumDocs

\* The result lists an index over Docs can return: no passage twice.
Rankings == InjSeqs(Docs, NumDocs)

\* doc.page_content[:100], the deduplication key.  Passages 1 and 3 are two
\* index entries whose content starts with the same 100 characters.
Fingerprint(d) == IF d = 3 THEN 1 ELSE d

\* doc.metadata: a mapping defined on the fields the passage carries.
\* Passage 3 carries no "type" field; passage 2 carries an "author" field, which
\* is none of the fields a Self-Query strategy is configured with by default.
Metadata(d) ==
    CASE d = 1 -> [type |-> "manual", page |-> "1"]
      [] d = 2 -> [type |-> "faq", page |-> "1", author |-> "bob"]
      [] d = 3 -> [page |-> "2"]
      [] OTHER -> [type |-> "manual"]

\* ----------------------------------------------------------------- floats

\* A Python float: a number, or NaN.  Hybrid weights are kept in tenths.
Num(v) == [nan |-> FALSE, v |-> v]

NaN == [nan |-> TRUE, v |-> 0]

\* a < b on floats: every comparison with NaN is false.
FloatLt(a, b) == ~a.nan /\ ~b.nan /\ a.v < b.v

\* max(a, b) and min(a, b) of Python: the first argument unless the second
\* one compares greater (smaller).
PyMax(a, b) == IF FloatLt(a, b) THEN b ELSE a

PyMin(a, b) == IF FloatLt(b, a) THEN b ELSE a

\* --------------------------------------------- sorted(..., reverse=True)
\* CPython's list.sort for fewer than 64 elements: reverse the list, find the
\* initial run (reversing it in place when it is strictly descending), insert
\* the remaining elements by binary insertion, reverse the list again.  The
\* elements are records with a field key.

RECURSIVE RunEnd(_, _, _)
RunEnd(s, i, desc) ==
    IF i > Len(s) THEN Len(s)
    ELSE IF FloatLt(s[i].key, s[i - 1].key) = desc THEN RunEnd(s, i + 1, desc)
    ELSE i - 1

CountRun(s) ==
    LET desc == FloatLt(s[2].key, s[1].key)
    IN [n |-> RunEnd(s, 3, desc), descending |-> desc]

RECURSIVE BinarySearch(_, _, _, _)
BinarySearch(s, pivot, l, r) ==
    IF l >= r THEN l
    ELSE LET p == l + ((r - l) \div 2)
         IN IF FloatLt(pivot.key, s[p].key)
            THEN BinarySearch(s, pivot, l, p)
            ELSE BinarySearch(s, pivot, p + 1, r)

RECURSIVE BinarySort(_, _)
BinarySort(s, start) ==
    IF start > Len(s) THEN s
    ELSE LET pivot == s[start]
             l == BinarySearch(s, pivot, 1, start)
         IN BinarySort(SubSeq(s, 1, l - 1) \o <<pivot>> \o SubSeq(s, l, start - 1)
                           \o SubSeq(s, start + 1, Len(s)),
                       start + 1)

SortedReverse(items) ==
    IF Len(items) < 2 THEN items
    ELSE LET s0 == ReverseSeq(items)
             run == CountRun(s0)
             s1 == IF run.descending
                   THEN ReverseSeq(SubSeq(s0, 1, run.n)) \o SubSeq(s0, run.n + 1, Len(s0))
                   ELSE s0
         IN ReverseSeq(BinarySort(s1, run.n + 1))

\* ------------------------------------------------------------------ texts
\* A text is a sequence of tokens: words, the blank " " and the line break NL.

NL == "\n"

White == {" ", NL}

RECURSIVE LStrip(_)
LStrip(s) == IF s # <<>> /\ Head(s) \in White THEN LStrip(Tail(s)) ELSE s

\* str.strip()
Strip(s) == ReverseSeq(LStrip(ReverseSeq(LStrip(s))))

\* str.split('\n'): the empty text splits into one empty line.
RECURSIVE SplitLines(_)
SplitLines(s) ==
    IF \A i \in 1..Len(s) : s[i] # NL THEN <<s>>
    ELSE LET i == CHOOSE j \in 1..Len(s) : s[j] = NL /\ \A h \in 1..(j - 1) : s[h] # NL
         IN <<SubSeq(s, 1, i - 1)>> \o SplitLines(SubSeq(s, i + 1, Len(s)))

\* [p.strip() for p in lines if p.strip()]
RECURSIVE StrippedNonEmpty(_)
StrippedNonEmpty(lines) ==
    IF lines = <<>> THEN <<>>
    ELSE IF Strip(Head(lines)) = <<>> THEN StrippedNonEmpty(Tail(lines))
    ELSE <<Strip(Head(lines))>> \o StrippedNonEmpty(Tail(lines))

\* The user's question.
Query == <<"q">>

\* ----------------------------------------------------------- Vector Index
\* store maps a text to the index's answer for it: ok = FALSE when the
\* search for that text raises, docs the ranking otherwise.

SimilaritySearch(store, text, n) ==
    [ok |-> store[text].ok, docs |-> IF store[text].ok THEN Prefix(store[text].docs, n) ELSE <<>>]

\* One entry of the log of the searches a retrieve call issued.
Searched(text, n, r) == [text |-> text, n |-> n, ok |-> r.ok]

\* What a retrieve call did: the list it returned, or that it raised.
Returned(docs, searches) == [raised |-> FALSE, docs |-> docs, searches |-> searches]

\* A handler that lets the exception it caught go on to the caller.
FallbackReraise(store, query, k, searches) ==
    [raised |-> TRUE, docs |-> <<>>, searches |-> searches]

\* The handler `return self.vector_store.similarity_search(query, k=k)` of every
\* strategy but Semantic: the search's list, and the search's exception when
\* it raises.
FallbackSearch(store, query, k, searches) ==
    LET r == SimilaritySearch(store, query, k)
    IN [raised |-> ~r.ok, docs |-> r.docs, searches |-> Append(searches, Searched(query, k, r))]

\* -------------------------------------------------------------- strategies
\* A strategy instance: its name, the manager's llm (TRUE when a client is
\* configured) and the parameters of its class (0 or empty when the class has
\* none).  bm25 is the Hybrid strategy's bm25_retriever.

NoBM25 == [built |-> FALSE, corpus |-> {}]

Strategy(name, llm) ==
    [name |-> name, llm |-> llm, semantic_weight |-> 0, keyword_weight |-> 0,
     bm25 |-> NoBM25, expansion_count |-> 0, rerank_top_k |-> 0,
     metadata_fields |-> {}, max_hops |-> 0]

SemanticRetriever(llm) == Strategy("semantic", llm)

\* Weights in tenths: keyword_weight = 1.0 - semantic_weight.
HybridRetriever(llm, semantic_weight) ==
    [Strategy("hybrid", llm) EXCEPT !.semantic_weight = semantic_weight,
                                    !.keyword_weight = 10 - semantic_weight]

SemanticQueryExpansionRetriever(llm, expansion_count) ==
    [Strategy("query_expansion", llm) EXCEPT !.expansion_count = expansion_count]

ContextReRankingRetriever(llm, rerank_top_k) ==
    [Strategy("reranking", llm) EXCEPT !.rerank_top_k = rerank_top_k]

SelfQueryRetriever(llm, metadata_fields) ==
    [Strategy("self_query", llm) EXCEPT !.metadata_fields = metadata_fields]

MultiHopRetriever(llm, max_hops) ==
    [Strategy("multihop", llm) EXCEPT !.max_hops = max_hops]

\* HybridRetriever.set_bm25_retriever
SetBM25Retriever(self, documents) ==
    [self EXCEPT !.bm25 = [built |-> TRUE, corpus |-> documents]]

\* --------------------------------------------------------------- Semantic

\* A Semantic strategy that returns the index's list back to front.
SemanticRetrieveReversed(self, store, query, k) ==
    LET r == SimilaritySearch(store, query, k)
    IN Returned(IF r.ok THEN ReverseSeq(r.docs) ELSE <<>>, <<Searched(query, k, r)>>)

\* SemanticRetriever.retrieve: one search; an exception gives the empty list.
SemanticRetrieve(self, store, query, k) ==
    LET r == SimilaritySearch(store, query, k)
    IN Returned(IF r.ok THEN r.docs ELSE <<>>, <<Searched(query, k, r)>>)

\* ----------------------------------------------------------------- Hybrid
\* doc_dict is kept in insertion order: a sequence of entries with the fields
\* key (the fingerprint), doc (the first passage seen with it) and score.

DictIndex(doc_dict, key) ==
    IF \E i \in 1..Len(doc_dict) : doc_dict[i].key = key
    THEN CHOOSE i \in 1..Len(doc_dict) : doc_dict[i].key = key
    ELSE 0

RECURSIVE AddScores(_, _, _)
AddScores(doc_dict, docs, weight) ==
    IF docs = <<>> THEN doc_dict
    ELSE LET doc == Head(docs)
             i == DictIndex(doc_dict, Fingerprint(doc))
         IN AddScores(IF i = 0
                      THEN Append(doc_dict, [key |-> Fingerprint(doc), doc |-> doc, score |-> weight])
                      ELSE [doc_dict EXCEPT ![i].score = @ + weight],
                      Tail(docs), weight)

\* The sorted passages without the cut to k.
TopByScoreUncut(doc_dict, k) ==
    LET items == [i \in 1..Len(doc_dict) |->
                     [key |-> Num(doc_dict[i].score), doc |-> doc_dict[i].doc]]
        sorted_docs == SortedReverse(items)
    IN [i \in 1..Len(sorted_docs) |-> sorted_docs[i].doc]

\* sorted(doc_dict.values(), key=score, reverse=True)[:k], the passages of it.
TopByScore(doc_dict, k) ==
    LET items == [i \in 1..Len(doc_dict) |->
                     [key |-> Num(doc_dict[i].score), doc |-> doc_dict[i].doc]]
        sorted_docs == SortedReverse(items)
    IN [i \in 1..Min(k, Len(sorted_docs)) |-> sorted_docs[i].doc]

\* lex is the answer of bm25_retriever.invoke(query): ok = FALSE when it raises.
HybridRetrieve(self, store, lex, query, k) ==
    LET r == SimilaritySearch(store, query, k)
        searches == <<Searched(query, k, r)>>
    IN IF ~self.bm25.built
       THEN IF r.ok THEN Returned(r.docs, searches)
            ELSE FallbackSearch(store, query, k, searches)
       ELSE IF ~r.ok THEN FallbackSearch(store, query, k, searches)
       ELSE IF ~lex.ok THEN FallbackSearch(store, query, k, searches)
       ELSE LET keyword_docs == Prefix(lex.docs, k)
                doc_dict == AddScores(AddScores(<<>>, r.docs, self.semantic_weight),
                                      keyword_docs, self.keyword_weight)
            IN Returned(TopByScore(doc_dict, k), searches)

\* -------------------------------------------------------- Query Expansion
\* reply is the answer of llm.invoke: ok = FALSE when the call raises, content
\* the text of the response otherwise.

GenerateParaphrases(self, reply, query) ==
    IF ~self.llm THEN <<query>>
    ELSE IF ~reply.ok THEN <<query>>
    ELSE Prefix(StrippedNonEmpty(SplitLines(Strip(reply.content))), self.expansion_count)

RECURSIVE AddCounts(_, _)
AddCounts(doc_dict, docs) ==
    IF docs = <<>> THEN doc_dict
    ELSE LET doc == Head(docs)
             i == DictIndex(doc_dict, Fingerprint(doc))
         IN AddCounts(IF i = 0
                      THEN Append(doc_dict, [key |-> Fingerprint(doc), doc |-> doc, score |-> 1])
                      ELSE [doc_dict EXCEPT ![i].score = @ + 1],
                      Tail(docs))

\* The loop `for q in queries`: it ends at the first search that raises.
RECURSIVE ExpansionLoop(_, _, _, _, _)
ExpansionLoop(store, queries, k, doc_dict, searches) ==
    IF queries = <<>> THEN [ok |-> TRUE, doc_dict |-> doc_dict, searches |-> searches]
    ELSE LET r == SimilaritySearch(store, Head(queries), k)
             log == Append(searches, Searched(Head(queries), k, r))
         IN IF ~r.ok THEN [ok |-> FALSE, doc_dict |-> doc_dict, searches |-> log]
            ELSE ExpansionLoop(store, Tail(queries), k, AddCounts(doc_dict, r.docs), log)

QueryExpansionRetrieve(self, store, reply, query, k) ==
    LET queries == <<query>> \o GenerateParaphrases(self, reply, query)
        loop == ExpansionLoop(store, queries, k, <<>>, <<>>)
    IN IF ~loop.ok THEN FallbackSearch(store, query, k, loop.searches)
       ELSE Returned(TopByScore(loop.doc_dict, k), loop.searches)

\* ----------------------------------------------------- Context Re-Ranking

\* float(text): ok = FALSE is ValueError.
ParseFloat(text) ==
    IF Len(text) # 1 THEN [ok |-> FALSE, value |-> Num(0)]
    ELSE CASE text[1] = "-5" -> [ok |-> TRUE, value |-> Num(-5)]
           [] text[1] = "3" -> [ok |-> TRUE, value |-> Num(3)]
           [] text[1] = "7" -> [ok |-> TRUE, value |-> Num(7)]
           [] text[1] = "12" -> [ok |-> TRUE, value |-> Num(12)]
           [] text[1] = "nan" -> [ok |-> TRUE, value |-> NaN]
           [] OTHER -> [ok |-> FALSE, value |-> Num(0)]

ScoreRelevance(self, reply) ==
    IF ~self.llm THEN Num(1)
    ELSE IF ~reply.ok THEN Num(5)
    ELSE LET score == ParseFloat(Strip(reply.content))
         IN IF score.ok THEN PyMin(PyMax(score.value, Num(0)), Num(10)) ELSE Num(5)

\* replies[i] is the answer of llm.invoke for the i-th passage of the pool.
ReRankingRetrieve(self, store, replies, query, k) ==
    LET r == SimilaritySearch(store, query, self.rerank_top_k)
        searches == <<Searched(query, self.rerank_top_k, r)>>
    IN IF ~r.ok THEN FallbackSearch(store, query, k, searches)
       ELSE IF r.docs = <<>> THEN Returned(<<>>, searches)
       ELSE LET scored_docs == [i \in 1..Len(r.docs) |->
                                   [key |-> ScoreRelevance(self, replies[i]), doc |-> r.docs[i]]]
                sorted_docs == SortedReverse(scored_docs)
            IN Returned([i \in 1..Min(k, Len(sorted_docs)) |-> sorted_docs[i].doc], searches)

\* -------------------------------------------------------------- Self-Query
\* The response text is a JSON document or not: kind is "object" (map holds
\* its members), another JSON value (truthy tells bool() of it), or "garbage"
\* (json.loads raises JSONDecodeError).

NoFilters == [kind |-> "object", map |-> <<>>, truthy |-> FALSE]

ExtractFilters(self, reply) ==
    IF ~self.llm THEN NoFilters
    ELSE IF ~reply.ok THEN NoFilters
    ELSE IF reply.content.kind = "garbage" THEN NoFilters
    ELSE reply.content

\* A filter that also discards the passages that lack a filter field.
MatchesStrict(filters, doc) ==
    \A key \in DOMAIN filters.map :
        key \in DOMAIN Metadata(doc) /\ Metadata(doc)[key] = filters.map[key]

\* The inner loop over filters.items() for one passage.
Matches(filters, doc) ==
    \A key \in DOMAIN filters.map :
        key \in DOMAIN Metadata(doc) => Metadata(doc)[key] = filters.map[key]

RECURSIVE FilterDocs(_, _)
FilterDocs(filters, docs) ==
    IF docs = <<>> THEN <<>>
    ELSE IF Matches(filters, Head(docs))
    THEN <<Head(docs)>> \o FilterDocs(filters, Tail(docs))
    ELSE FilterDocs(filters, Tail(docs))

\* A retrieve that lets the AttributeError of a filter that is no dict go on to
\* the caller.
SelfQueryRetrieveUnhandled(self, store, reply, query, k) ==
    LET filters == ExtractFilters(self, reply)
        r == SimilaritySearch(store, query, k)
        searches == <<Searched(query, k, r)>>
    IN IF ~r.ok THEN FallbackSearch(store, query, k, searches)
       ELSE IF ~filters.truthy THEN Returned(Prefix(r.docs, k), searches)
       ELSE IF filters.kind # "object" /\ r.docs # <<>>
       THEN FallbackReraise(store, query, k, searches)
       ELSE LET filtered_docs == FilterDocs(filters, r.docs)
            IN Returned(Prefix(IF filtered_docs # <<>> THEN filtered_docs ELSE r.docs, k),
                        searches)

SelfQueryRetrieve(self, store, reply, query, k) ==
    LET filters == ExtractFilters(self, reply)
        r == SimilaritySearch(store, query, k)
        searches == <<Searched(query, k, r)>>
    IN IF ~r.ok THEN FallbackSearch(store, query, k, searches)
       ELSE IF ~filters.truthy THEN Returned(Prefix(r.docs, k), searches)
       \* filters.items() on a value that is no dict raises AttributeError
       ELSE IF filters.kind # "object" /\ r.docs # <<>>
       THEN FallbackSearch(store, query, k, searches)
       ELSE LET filtered_docs == FilterDocs(filters, r.docs)
            IN Returned(Prefix(IF filtered_docs # <<>> THEN filtered_docs ELSE r.docs, k),
                        searches)

\* --------------------------------------------------------------- Multi-Hop

DecomposeQuestion(self, reply, query) ==
    IF ~self.llm THEN <<query>>
    ELSE IF ~reply.ok THEN <<query>>
    ELSE LET sub_questions ==
                 Prefix(StrippedNonEmpty(SplitLines(Strip(reply.content))), self.max_hops)
         IN IF sub_questions = <<>> THEN <<query>> ELSE sub_questions

\* doc_dict[key]["hops"].append(i): hops is the list of the indices appended.
RECURSIVE AddHops(_, _, _)
AddHops(doc_dict, docs, i) ==
    IF docs = <<>> THEN doc_dict
    ELSE LET doc == Head(docs)
             j == DictIndex(doc_dict, Fingerprint(doc))
         IN AddHops(IF j = 0
                    THEN Append(doc_dict, [key |-> Fingerprint(doc), doc |-> doc, hops |-> <<i>>])
                    ELSE [doc_dict EXCEPT ![j].hops = Append(@, i)],
                    Tail(docs), i)

RECURSIVE HopLoop(_, _, _, _, _, _)
HopLoop(store, sub_questions, i, k, doc_dict, searches) ==
    IF i > Len(sub_questions) THEN [ok |-> TRUE, doc_dict |-> doc_dict, searches |-> searches]
    ELSE LET r == SimilaritySearch(store, sub_questions[i], k)
             log == Append(searches, Searched(sub_questions[i], k, r))
         IN IF ~r.ok THEN [ok |-> FALSE, doc_dict |-> doc_dict, searches |-> log]
            ELSE HopLoop(store, sub_questions, i + 1, k, AddHops(doc_dict, r.docs, i - 1), log)

\* sorted(doc_dict.values(), key=len(hops), reverse=True)[:k], the passages of it.
TopByHops(doc_dict, k) ==
    LET items == [i \in 1..Len(doc_dict) |->
                     [key |-> Num(Len(doc_dict[i].hops)), doc |-> doc_dict[i].doc]]
        sorted_docs == SortedReverse(items)
    IN [i \in 1..Min(k, Len(sorted_docs)) |-> sorted_docs[i].doc]

MultiHopRetrieve(self, store, reply, query, k) ==
    LET sub_questions == DecomposeQuestion(self, reply, query)
        loop == HopLoop(store, sub_questions, 1, k, <<>>, <<>>)
    IN IF ~loop.ok THEN FallbackSearch(store, query, k, loop.searches)
       ELSE Returned(TopByHops(loop.doc_dict, k), loop.searches)

\* ------------------------------------------------------- Strategy Registry

None == "None"

\* self.retriever = None
NoRetriever == Strategy(None, FALSE)

\* str.lower() on the identifiers callers use.
Lower(name) ==
    CASE name = "HYBRID" -> "hybrid"
      [] name = "Harmful" -> "harmful"
      [] name = "UNSAFE" -> "unsafe"
      [] OTHER -> name

\* StrategyFactory._strategies, in the order of the dictionary.
StrategyNames ==
    <<"semantic", "hybrid", "query_expansion", "reranking", "self_query", "multihop">>

\* The keyword parameter the constructor of a class takes beside vector_store
\* and llm, and its default value.
KeywordOf(class) ==
    CASE class = "hybrid" -> {"semantic_weight"}
      [] class = "query_expansion" -> {"expansion_count"}
      [] class = "reranking" -> {"rerank_top_k"}
      [] class = "self_query" -> {"metadata_fields"}
      [] class = "multihop" -> {"max_hops"}
      [] OTHER -> {}

DefaultMetadataFields == {"source", "page", "type", "date"}

Arg(kwargs, keyword, default) ==
    IF keyword \in DOMAIN kwargs THEN kwargs[keyword] ELSE default

\* strategy_class(vector_store, llm, **kwargs): ok = FALSE is the TypeError of
\* a keyword the constructor does not take.
Construct(class, llm, kwargs) ==
    IF ~(DOMAIN kwargs \subseteq KeywordOf(class))
    THEN [ok |-> FALSE, strategy |-> NoRetriever]
    ELSE [ok |-> TRUE,
          strategy |->
              CASE class = "hybrid" -> HybridRetriever(llm, Arg(kwargs, "semantic_weight", 6))
                [] class = "query_expansion" ->
                       SemanticQueryExpansionRetriever(llm, Arg(kwargs, "expansion_count", 3))
                [] class = "reranking" ->
                       ContextReRankingRetriever(llm, Arg(kwargs, "rerank_top_k", 5))
                [] class = "self_query" ->
                       SelfQueryRetriever(llm, Arg(kwargs, "metadata_fields", DefaultMetadataFields))
                [] class = "multihop" -> MultiHopRetriever(llm, Arg(kwargs, "max_hops", 3))
                [] OTHER -> SemanticRetriever(llm)]

\* A listing in the reverse of the order of the dictionary.
GetAvailableStrategiesReversed == ReverseSeq(StrategyNames)

\* StrategyFactory.get_available_strategies: list(cls._strategies.keys())
GetAvailableStrategies == StrategyNames

\* get_info of the class of self.
GetInfo(self) ==
    CASE self.name = "hybrid" ->
             [name |-> self.name, type |-> "hybrid",
              description |-> "Combines BM25 (keyword) and semantic search",
              semantic_weight |-> self.semantic_weight, keyword_weight |-> self.keyword_weight]
      [] self.name = "query_expansion" ->
             [name |-> self.name, type |-> "query_expansion",
              description |-> "Expands queries with LLM paraphrases",
              expansion_count |-> self.expansion_count]
      [] self.name = "reranking" ->
             [name |-> self.name, type |-> "reranking",
              description |-> "Re-ranks results by LLM relevance scoring",
              rerank_top_k |-> self.rerank_top_k]
      [] self.name = "self_query" ->
             [name |-> self.name, type |-> "self_query",
              description |-> "Extracts metadata filters from query",
              metadata_fields |-> self.metadata_fields]
      [] self.name = "multihop" ->
             [name |-> self.name, type |-> "multihop",
              description |-> "Decomposes complex questions into sub-queries",
              max_hops |-> self.max_hops]
      [] OTHER ->
             [name |-> self.name, type |-> "semantic",
              description |-> "Basic vector similarity search using FAISS"]

\* StrategyFactory.create
Create(strategy_name, llm, kwargs) ==
    IF Lower(strategy_name) \in Range(StrategyNames)
    THEN Construct(Lower(strategy_name), llm, kwargs)
    ELSE Construct("semantic", llm, kwargs)

\* -------------------------------------------------------- Retrieval Manager

VARIABLES
    llm,                \* RetrieverManager.llm: TRUE when a client is configured
    retriever,          \* RetrieverManager.retriever
    current_strategy,   \* RetrieverManager.current_strategy
    call,               \* the retrieve call whose result the caller holds
    activation,         \* the last initialize_strategy call and what happened in it
    observed,           \* the answer to the last read-only call, while the
                        \* caller holds it
    first_index,        \* history of the switches hybrid, semantic, hybrid: the
                        \* Lexical Index of the Hybrid instance that was replaced
                        \* by a Semantic instance, while that instance or the
                        \* Hybrid instance that replaced it in turn is active
    events,             \* ResponsibleAIMonitor.events
    csv_file,           \* the rows of QueryLogger.csv_file under the header
    json_file,          \* QueryLogger.json_file
    logged,             \* history: the entries passed to log_query so far
    returned,           \* what the last call of the monitor, the logger or the
                        \* question handler returned
    enable_responsible_ai   \* st.session_state.enable_responsible_ai

vars ==
    <<llm, retriever, current_strategy, call, activation, observed, first_index,
      events, csv_file, json_file, logged, returned, enable_responsible_ai>>

\* The state of the monitor, the logger and the session, which the manager
\* does not touch, and the state of the manager, which they do not touch.
logging_vars == <<events, csv_file, json_file, logged, returned, enable_responsible_ai>>

retrieval_vars == <<retriever, current_strategy, call, activation, observed, first_index>>

\* first_index after the manager replaced old by new.
Replaced(old, new) ==
    IF old.name = "hybrid" /\ old.bm25.built /\ new.name = "semantic" THEN old.bm25
    ELSE IF old.name = "semantic" /\ new.name = "hybrid" THEN first_index
    ELSE NoBM25

\* No read-only call was answered yet.
NoObservation == [op |-> None, value |-> <<>>]

\* The descriptor get_strategy_info returns when no strategy is active.
NotInitialized == [strategy |-> "none", status |-> "not initialized"]

NoBoot == [ok |-> FALSE, corpus |-> {}]

\* initialize_strategy was not called yet.  given tells whether the caller
\* named the strategy (FALSE: the identifier of the environment was taken),
\* name is the identifier used, created whether StrategyFactory.create
\* returned, pulled whether the bootstrap of the Lexical Index ran.
NoActivation ==
    [made |-> FALSE, given |-> FALSE, name |-> None, kwargs |-> <<>>, created |-> FALSE,
     pulled |-> FALSE, boot |-> NoBoot]

\* No retrieve call is in progress.
NoCall ==
    [active |-> FALSE, k |-> 0, store |-> <<>>, lex |-> [ok |-> FALSE, docs |-> <<>>],
     reply |-> [ok |-> FALSE, content |-> <<>>], replies |-> <<>>,
     filter |-> [ok |-> FALSE, content |-> [kind |-> "garbage", map |-> <<>>, truthy |-> FALSE]],
     raised |-> FALSE, docs |-> <<>>, searches |-> <<>>]

\* An initialize_strategy whose handler records the identifier asked for.
InitializeStrategyKeepingName(manager_llm, strategy_name, kwargs, boot) ==
    LET created == Create(strategy_name, manager_llm, kwargs)
        pulled == created.ok /\ Lower(strategy_name) = "hybrid"
        made == [made |-> TRUE, given |-> TRUE, name |-> strategy_name, kwargs |-> kwargs,
                 created |-> created.ok, pulled |-> pulled,
                 boot |-> IF pulled THEN boot ELSE NoBoot]
    IN [retriever |-> IF ~created.ok THEN Create("semantic", manager_llm, <<>>).strategy
                      ELSE IF pulled /\ boot.ok
                      THEN SetBM25Retriever(created.strategy, boot.corpus)
                      ELSE created.strategy,
        current_strategy |-> strategy_name, activation |-> made]

\* An initialize_strategy without the handler: when the construction raises,
\* the manager is left as it was.
InitializeStrategyUnguarded(manager_llm, strategy_name, kwargs, boot) ==
    LET created == Create(strategy_name, manager_llm, kwargs)
        pulled == created.ok /\ Lower(strategy_name) = "hybrid"
        made == [made |-> TRUE, given |-> TRUE, name |-> strategy_name, kwargs |-> kwargs,
                 created |-> created.ok, pulled |-> pulled,
                 boot |-> IF pulled THEN boot ELSE NoBoot]
    IN IF ~created.ok
       THEN [retriever |-> retriever, current_strategy |-> current_strategy,
             activation |-> made]
       ELSE [retriever |-> IF pulled /\ boot.ok
                           THEN SetBM25Retriever(created.strategy, boot.corpus)
                           ELSE created.strategy,
             current_strategy |-> strategy_name, activation |-> made]

\* An initialize_strategy that keeps the active instance when it is of the
\* class asked for, instead of constructing one.
InitializeStrategyReusing(manager_llm, strategy_name, kwargs, boot) ==
    LET created == Create(strategy_name, manager_llm, kwargs)
        pulled == created.ok /\ Lower(strategy_name) = "hybrid"
        made == [made |-> TRUE, given |-> TRUE, name |-> strategy_name, kwargs |-> kwargs,
                 created |-> created.ok, pulled |-> pulled,
                 boot |-> IF pulled THEN boot ELSE NoBoot]
    IN IF ~created.ok
       THEN [retriever |-> Create("semantic", manager_llm, <<>>).strategy,
             current_strategy |-> "semantic", activation |-> made]
       ELSE IF retriever.name = created.strategy.name
       THEN [retriever |-> retriever, current_strategy |-> strategy_name, activation |-> made]
       ELSE [retriever |-> IF pulled /\ boot.ok
                           THEN SetBM25Retriever(created.strategy, boot.corpus)
                           ELSE created.strategy,
             current_strategy |-> strategy_name, activation |-> made]

\* An initialize_strategy whose bootstrap is not guarded: its failure reaches
\* the outer handler, which activates the Semantic strategy.
InitializeStrategyBootFatal(manager_llm, strategy_name, kwargs, boot) ==
    LET created == Create(strategy_name, manager_llm, kwargs)
        pulled == created.ok /\ Lower(strategy_name) = "hybrid"
        made == [made |-> TRUE, given |-> TRUE, name |-> strategy_name, kwargs |-> kwargs,
                 created |-> created.ok, pulled |-> pulled,
                 boot |-> IF pulled THEN boot ELSE NoBoot]
    IN IF ~created.ok \/ (pulled /\ ~boot.ok)
       THEN [retriever |-> Create("semantic", manager_llm, <<>>).strategy,
             current_strategy |-> "semantic", activation |-> made]
       ELSE [retriever |-> IF pulled
                           THEN SetBM25Retriever(created.strategy, boot.corpus)
                           ELSE created.strategy,
             current_strategy |-> strategy_name, activation |-> made]

\* RetrieverManager.initialize_strategy.  boot is the outcome of the bootstrap
\* of the Lexical Index: ok = FALSE when similarity_search("", k=1000) or
\* BM25Retriever.from_documents raises, corpus the passages indexed otherwise.
InitializeStrategy(manager_llm, strategy_name, kwargs, boot) ==
    LET created == Create(strategy_name, manager_llm, kwargs)
        pulled == created.ok /\ Lower(strategy_name) = "hybrid"
        made == [made |-> TRUE, given |-> TRUE, name |-> strategy_name, kwargs |-> kwargs,
                 created |-> created.ok, pulled |-> pulled,
                 boot |-> IF pulled THEN boot ELSE NoBoot]
    IN IF ~created.ok
       THEN [retriever |-> Create("semantic", manager_llm, <<>>).strategy,
             current_strategy |-> "semantic", activation |-> made]
       ELSE [retriever |-> IF pulled /\ boot.ok
                           THEN SetBM25Retriever(created.strategy, boot.corpus)
                           ELSE created.strategy,
             current_strategy |-> strategy_name, activation |-> made]

\* The identifier and options of the activations callers ask for: every
\* registered identifier with the defaults of its class (Context Re-Ranking
\* with pools of 3 and of 1), an identifier in capitals, one that is not
\* registered, and options the class does not take.
Activations ==
    {[name |-> n, kwargs |-> <<>>] :
        n \in {"semantic", "hybrid", "HYBRID", "query_expansion", "self_query", "multihop", "bogus"}}
    \cup {[name |-> "hybrid", kwargs |-> [semantic_weight |-> 6]],
          [name |-> "reranking", kwargs |-> [rerank_top_k |-> 3]],
          [name |-> "reranking", kwargs |-> [rerank_top_k |-> 1]],
          [name |-> "bogus", kwargs |-> [rerank_top_k |-> 1]],
          [name |-> "multihop", kwargs |-> [semantic_weight |-> 6]]}

\* The values of RETRIEVAL_STRATEGY in the environment (unset: "semantic").
EnvironmentStrategies == {"semantic", "hybrid", "query_expansion", "bogus"}

\* The outcomes of the bootstrap: a failure, or an index over the passages
\* similarity_search("", k=1000) returned.
BootOutcomes(strategy_name) ==
    IF Lower(strategy_name) = "hybrid"
    THEN {NoBoot, [ok |-> TRUE, corpus |-> Docs], [ok |-> TRUE, corpus |-> Docs \ {1}]}
    ELSE {NoBoot}

\* initialize_strategy(name, **kwargs) and switch_strategy(name, **kwargs),
\* which only logs around it.
SwitchStrategy ==
    /\ ~call.active /\ observed.op = None
    /\ \E a \in Activations :
         \E boot \in BootOutcomes(a.name) :
            LET m == InitializeStrategy(llm, a.name, a.kwargs, boot)
            IN /\ retriever' = m.retriever
               /\ current_strategy' = m.current_strategy
               /\ activation' = m.activation
    /\ first_index' = Replaced(retriever, retriever')
    /\ UNCHANGED <<llm, call, observed>>
    /\ UNCHANGED logging_vars

\* A get_strategy_info that activates the Semantic strategy when none is active.
GetStrategyInfoInitializing ==
    /\ ~call.active
    /\ retriever' = IF retriever = NoRetriever THEN SemanticRetriever(llm) ELSE retriever
    /\ observed' = [op |-> "get_strategy_info", value |-> GetInfo(retriever')]
    /\ UNCHANGED <<llm, current_strategy, call, activation, first_index>>
    /\ UNCHANGED logging_vars

\* RetrieverManager.get_strategy_info
GetStrategyInfo ==
    /\ ~call.active
    /\ observed' = [op |-> "get_strategy_info",
                    value |-> IF retriever # NoRetriever THEN GetInfo(retriever)
                              ELSE NotInitialized]
    /\ UNCHANGED <<llm, retriever, current_strategy, call, activation, first_index>>
    /\ UNCHANGED logging_vars

\* RetrieverManager.list_available_strategies
ListAvailableStrategies ==
    /\ ~call.active
    /\ observed' = [op |-> "list_available_strategies", value |-> GetAvailableStrategies]
    /\ UNCHANGED <<llm, retriever, current_strategy, call, activation, first_index>>
    /\ UNCHANGED logging_vars

\* -------------------------------------------- what the collaborators answer

Failed == [ok |-> FALSE, docs |-> <<>>]

\* The answers of the Vector Index for the texts of one retrieve call: for
\* each text a failure, or a ranking of at most n passages.
Stores(texts, n) ==
    [texts -> {Failed} \cup {[ok |-> TRUE, docs |-> d] : d \in {r \in Rankings : Len(r) <= n}}]

\* The answers of bm25_retriever.invoke(query): a failure, or passages of the
\* corpus the index was built from (more than k of them when it has them).
LexicalAnswers(bm25, k) ==
    IF bm25.built
    THEN {Failed} \cup {[ok |-> TRUE, docs |-> d] :
                             d \in {r \in Rankings : Len(r) <= k + 1 /\ Range(r) \subseteq bm25.corpus}}
    ELSE {NoCall.lex}

\* The responses of the Language Model Client to the paraphrase and the
\* decomposition prompts: a failure, an empty text, one line, and four lines
\* (one of them the question itself) with blanks and blank lines around them.
LineReplies ==
    {[ok |-> FALSE, content |-> <<>>]} \cup
    {[ok |-> TRUE, content |-> c] :
        c \in {<<>>, <<"p1">>,
               <<NL, " ", "p1", " ", NL, " ", NL, "q", NL, "q", NL, "p1", NL>>}}

\* ... to the relevance prompt: a failure, numbers inside and outside 0..10,
\* "nan", and a text that is no number.
ScoreReplies ==
    {[ok |-> FALSE, content |-> <<>>]} \cup
    {[ok |-> TRUE, content |-> c] :
        c \in {<<"3">>, <<" ", "7", NL>>, <<"12">>, <<"-5">>, <<"nan">>, <<"high">>}}

\* ... to the filter prompt: a failure, a text that is no JSON, the empty
\* object, objects with one and two members (one names a field that is not a
\* configured metadata field), a non-empty array and null.
JsonObject(map) == [kind |-> "object", map |-> map, truthy |-> DOMAIN map # {}]

FilterReplies ==
    {NoCall.filter} \cup
    {[ok |-> TRUE, content |-> c] :
        c \in {[kind |-> "garbage", map |-> <<>>, truthy |-> FALSE],
               JsonObject(<<>>),
               JsonObject([type |-> "manual"]),
               JsonObject([type |-> "faq", page |-> "1"]),
               JsonObject([author |-> "ann"]),
               [kind |-> "array", map |-> <<>>, truthy |-> TRUE],
               [kind |-> "null", map |-> <<>>, truthy |-> FALSE]}}

\* The texts a strategy searches for, given the reply of the client.
SearchTexts(self, reply) ==
    {Query} \cup
    (CASE self.name = "query_expansion" -> Range(GenerateParaphrases(self, reply, Query))
       [] self.name = "multihop" -> Range(DecomposeQuestion(self, reply, Query))
       [] OTHER -> {})

\* The largest number of passages self asks the Vector Index for.
LargestRequest(self, k) ==
    IF self.name = "reranking" /\ self.rerank_top_k > k THEN self.rerank_top_k ELSE k

\* The answers of the client that self.retrieve can meet, by prompt.
LineAnswers(self) ==
    IF self.name \in {"query_expansion", "multihop"} /\ self.llm THEN LineReplies ELSE {NoCall.reply}

ScoreAnswers(self, pool) ==
    IF self.name = "reranking"
    THEN [1..Len(pool) -> IF self.llm THEN ScoreReplies ELSE {NoCall.reply}]
    ELSE {<<>>}

FilterAnswers(self) ==
    IF self.name = "self_query" /\ self.llm THEN FilterReplies ELSE {NoCall.filter}

\* self.retriever.retrieve(query, k=k): the method of the active strategy's class.
StrategyRetrieve(self, e, query, k) ==
    CASE self.name = "hybrid" -> HybridRetrieve(self, e.store, e.lex, query, k)
      [] self.name = "query_expansion" -> QueryExpansionRetrieve(self, e.store, e.reply, query, k)
      [] self.name = "reranking" -> ReRankingRetrieve(self, e.store, e.replies, query, k)
      [] self.name = "self_query" -> SelfQueryRetrieve(self, e.store, e.filter, query, k)
      [] self.name = "multihop" -> MultiHopRetrieve(self, e.store, e.reply, query, k)
      [] OTHER -> SemanticRetrieve(self, e.store, query, k)

\* A retrieve that calls initialize_strategy() whether a strategy is active or
\* not.
AlwaysInitialized(env_name, boot) ==
    [InitializeStrategy(llm, env_name, <<>>, boot) EXCEPT !.activation.given = FALSE]

\* `if self.retriever is None: self.initialize_strategy()` of retrieve: the
\* manager the call goes on with.
EnsureInitialized(env_name, boot) ==
    IF retriever = NoRetriever
    THEN [InitializeStrategy(llm, env_name, <<>>, boot) EXCEPT !.activation.given = FALSE]
    ELSE [retriever |-> retriever, current_strategy |-> current_strategy,
          activation |-> activation]

\* RetrieverManager.retrieve(query, k): initialize_strategy() with the
\* identifier of the environment when no strategy is active, then the active
\* strategy's retrieve.
Retrieve ==
    /\ ~call.active /\ observed.op = None
    /\ \E env_name \in IF retriever = NoRetriever THEN EnvironmentStrategies ELSE {"semantic"} :
         \E boot \in IF retriever = NoRetriever THEN BootOutcomes(env_name) ELSE {NoBoot} :
            LET m == EnsureInitialized(env_name, boot)
            IN \E k \in 1..MaxK, rp \in LineAnswers(m.retriever), f \in FilterAnswers(m.retriever) :
                 \E st \in Stores(SearchTexts(m.retriever, rp), LargestRequest(m.retriever, k)),
                    lx \in LexicalAnswers(m.retriever.bm25, k) :
                 \E rs \in ScoreAnswers(m.retriever, st[Query].docs) :
                    LET e == [store |-> st, lex |-> lx, reply |-> rp, replies |-> rs, filter |-> f]
                        out == StrategyRetrieve(m.retriever, e, Query, k)
                    IN /\ retriever' = m.retriever
                       /\ current_strategy' = m.current_strategy
                       /\ activation' = m.activation
                       /\ call' = [active |-> TRUE, k |-> k, store |-> e.store, lex |-> e.lex,
                                   reply |-> e.reply, replies |-> e.replies, filter |-> e.filter,
                                   raised |-> out.raised, docs |-> out.docs,
                                   searches |-> out.searches]
    /\ first_index' = NoBM25
    /\ UNCHANGED <<llm, observed>>
    /\ UNCHANGED logging_vars

\* The caller takes the result of the call (the list or the exception of a
\* retrieve call, the answer of a read-only call) and goes on.
Return ==
    /\ call.active \/ observed.op # None
    /\ call' = NoCall
    /\ observed' = NoObservation
    /\ UNCHANGED <<llm, retriever, current_strategy, activation, first_index>>
    /\ UNCHANGED logging_vars

\* ------------------------------------------------ evaluation and logging
\* The Responsible AI monitor and the query logger of evaluation_logging.py,
\* and the question handler of app.py that uses them.  A text is a sequence
\* of words.  The timestamps (datetime.now()) and the performance and RAGAS
\* figures of the entries are left out: nothing below reads them.

\* os.getenv("CONTENT_FILTER_KEYWORDS", ...).split(","), the default.
SensitiveKeywords ==
    <<"inappropriate", "offensive", "harmful", "violent", "discriminatory">>

\* The text filter_response returns for a response it filtered.
Apology ==
    <<"I apologize, but I cannot provide that response as it may contain inappropriate content. Please rephrase your question.">>

\* None where a text can stand.
NoText == <<None>>

\* text.lower()
LowerText(text) == [i \in 1..Len(text) |-> Lower(text[i])]

\* word in text
Contains(text, word) == \E i \in 1..Len(text) : text[i] = word

\* ResponsibleAIMonitor.check_content_safety.  verdict is the answer of
\* llm.invoke to the safety prompt: ok = FALSE when the call raises.
CheckContentSafety(self_llm, text, verdict) ==
    LET text_lower == LowerText(text)
        hits == {i \in 1..Len(SensitiveKeywords) :
                    Contains(text_lower, Lower(SensitiveKeywords[i]))}
    IN IF hits # {}
       THEN LET first == CHOOSE i \in hits : \A j \in hits : i <= j
            IN [is_safe |-> FALSE,
                reason |-> <<"Contains sensitive keyword: ", SensitiveKeywords[first]>>]
       ELSE IF self_llm /\ verdict.ok /\ Contains(LowerText(verdict.content), "unsafe")
       THEN [is_safe |-> FALSE, reason |-> <<"LLM safety check failed">>]
       ELSE [is_safe |-> TRUE, reason |-> NoText]

\* A ResponsibleAIEvent of type "content_filtered".
ResponsibleAIEvent(query, response_filtered, filter_reason, original_response, filtered_response) ==
    [class |-> "ResponsibleAIEvent", event_type |-> "content_filtered", query |-> query,
     response_filtered |-> response_filtered, filter_reason |-> filter_reason,
     original_response |-> original_response, filtered_response |-> filtered_response]

\* A filter_response that logs the responses it filtered only.
FilterResponseLoggingFiltered(self_llm, log, query, response, verdict) ==
    LET safety == CheckContentSafety(self_llm, response, verdict)
    IN IF ~safety.is_safe
       THEN LET event == ResponsibleAIEvent(query, TRUE, safety.reason, response, Apology)
            IN [events |-> Append(log, event), filtered_response |-> event.filtered_response,
                was_filtered |-> TRUE, reason |-> safety.reason]
       ELSE [events |-> log, filtered_response |-> response,
             was_filtered |-> FALSE, reason |-> NoText]

\* ResponsibleAIMonitor.filter_response: the event log after the call and the
\* tuple (filtered_response, was_filtered, reason) returned.
FilterResponse(self_llm, log, query, response, verdict) ==
    LET safety == CheckContentSafety(self_llm, response, verdict)
    IN IF ~safety.is_safe
       THEN LET event == ResponsibleAIEvent(query, TRUE, safety.reason, response, Apology)
            IN [events |-> Append(log, event), filtered_response |-> event.filtered_response,
                was_filtered |-> TRUE, reason |-> safety.reason]
       ELSE LET event == ResponsibleAIEvent(query, FALSE, NoText, response, NoText)
            IN [events |-> Append(log, event), filtered_response |-> response,
                was_filtered |-> FALSE, reason |-> NoText]

\* asdict(self) of a dataclass instance, and the constructor call
\* QueryLog(**log) on a dictionary read from the file.
ToDict(instance) == [f \in DOMAIN instance \ {"class"} |-> instance[f]]

FromDict(class, dict) ==
    [f \in DOMAIN dict \cup {"class"} |-> IF f = "class" THEN class ELSE dict[f]]

\* A QueryLog entry.
QueryLog(query, response, documents_retrieved, responsible_ai_events, success) ==
    [class |-> "QueryLog", query |-> query, response |-> response,
     documents_retrieved |-> documents_retrieved,
     responsible_ai_events |-> responsible_ai_events, success |-> success]

\* str(value) of a bool, as csv.writer writes it.
PyStr(value) == IF value THEN "True" ELSE "False"

\* A passage text with a character the utf-8 codec cannot write (a lone
\* surrogate, as text extraction leaves them).
Surrogate == "\\ud83d"

\* json.dump to the utf-8 file can write the dictionary.
Encodable(dict) ==
    \A i \in 1..Len(dict.documents_retrieved) : dict.documents_retrieved[i] # Surrogate

\* The log directory is fresh: there is no JSON file (the CSV file holds its
\* header row only; csv_file is the rows under it).
NoFile == [exists |-> FALSE, valid |-> FALSE, logs |-> <<>>]

\* The CSV part of log_query: one row appended.
CsvAppended(rows, query_log) ==
    LET filtered == \E i \in 1..Len(query_log.responsible_ai_events) :
                        query_log.responsible_ai_events[i].response_filtered
    IN Append(rows, [query |-> query_log.query, response |-> Prefix(query_log.response, 200),
                     response_filtered |-> PyStr(filtered),
                     success |-> PyStr(query_log.success)])

\* The JSON part of log_query: the file is read, the entry appended to the
\* list and the file written anew.  json.load raises on a file that is no
\* JSON, and nothing is written; open(..., 'w') empties the file, and a
\* json.dump that raises leaves the part it wrote, which is no JSON.  Both
\* exceptions are logged and dropped.
JsonAppended(file, query_log) ==
    IF file.exists /\ ~file.valid THEN file
    ELSE LET logs == Append(file.logs, ToDict(query_log))
         IN IF \A i \in 1..Len(logs) : Encodable(logs[i])
            THEN [exists |-> TRUE, valid |-> TRUE, logs |-> logs]
            ELSE [exists |-> TRUE, valid |-> FALSE, logs |-> <<>>]

\* QueryLogger.get_logs() for the day's file.
GetLogs(file) ==
    IF ~file.exists THEN <<>>
    ELSE IF ~file.valid THEN <<>>
    ELSE [i \in 1..Len(file.logs) |-> FromDict("QueryLog", file.logs[i])]

\* No call of the monitor, the logger or the handler was made yet.
NoReturn == [op |-> None]

\* The n-th question of the session, the responses of the chain (one holds a
\* sensitive keyword with a capital), the passage texts it retrieved and the
\* answers of the client to the safety prompt.
Question(n) == <<"question", n>>

Responses == {<<"fine">>, <<"Harmful">>}

Retrieved == {<<"text">>, <<Surrogate>>}

Verdicts ==
    {[ok |-> FALSE, content |-> <<>>], [ok |-> TRUE, content |-> <<"safe">>],
     [ok |-> TRUE, content |-> <<"UNSAFE">>]}

\* The answers of the client the monitor can get for a response.
VerdictsFor(response) ==
    IF llm /\ CheckContentSafety(FALSE, response, [ok |-> FALSE, content |-> <<>>]).is_safe
    THEN Verdicts ELSE {[ok |-> FALSE, content |-> <<>>]}

\* log_query(query_log) on the files of the logger.
Logged(query_log) ==
    /\ csv_file' = CsvAppended(csv_file, query_log)
    /\ json_file' = JsonAppended(json_file, query_log)
    /\ logged' = Append(logged, query_log)

\* The question handler of app.py.  The chain answers or raises; with the
\* filtering enabled the response goes through filter_response and the entry
\* gets the events of get_events(); the entry is logged.
AskQuestion ==
    /\ Len(logged) < MaxQueries
    /\ LET user_question == Question(Len(logged) + 1) IN
         \/ \E original_answer \in Responses, retrieved_docs \in Retrieved :
              \E verdict \in IF enable_responsible_ai THEN VerdictsFor(original_answer)
                             ELSE {[ok |-> FALSE, content |-> <<>>]} :
                 LET f == IF enable_responsible_ai
                          THEN FilterResponse(llm, events, user_question, original_answer, verdict)
                          ELSE [events |-> events, filtered_response |-> original_answer,
                                was_filtered |-> FALSE, reason |-> NoText]
                     responsible_ai_events ==
                          IF enable_responsible_ai
                          THEN [i \in 1..Len(f.events) |-> ToDict(f.events[i])]
                          ELSE <<>>
                 IN /\ events' = f.events
                    /\ Logged(QueryLog(user_question, f.filtered_response, retrieved_docs,
                                       responsible_ai_events, TRUE))
                    /\ returned' = [op |-> "ask", enabled |-> enable_responsible_ai,
                                    success |-> TRUE, response |-> original_answer,
                                    verdict |-> verdict,
                                    filtered_response |-> f.filtered_response,
                                    was_filtered |-> f.was_filtered, reason |-> f.reason]
         \/ /\ events' = events
            /\ Logged(QueryLog(user_question, <<>>, <<>>, <<>>, FALSE))
            /\ returned' = [op |-> "ask", enabled |-> enable_responsible_ai,
                            success |-> FALSE, response |-> <<>>,
                            verdict |-> [ok |-> FALSE, content |-> <<>>],
                            filtered_response |-> <<>>,
                            was_filtered |-> FALSE, reason |-> NoText]
    /\ UNCHANGED <<llm, enable_responsible_ai>>
    /\ UNCHANGED retrieval_vars

\* The checkbox "Enable Responsible AI Filtering".
ToggleResponsibleAI ==
    /\ enable_responsible_ai' = ~enable_responsible_ai
    /\ returned' = [op |-> "toggle"]
    /\ UNCHANGED <<llm, events, csv_file, json_file, logged>>
    /\ UNCHANGED retrieval_vars

\* ResponsibleAIMonitor.clear_events
ClearEvents ==
    /\ events' = <<>>
    /\ returned' = [op |-> "clear_events"]
    /\ UNCHANGED <<llm, csv_file, json_file, logged, enable_responsible_ai>>
    /\ UNCHANGED retrieval_vars

\* logger.get_logs() called by itself.
GetLogsCall ==
    /\ returned' = [op |-> "get_logs", value |-> GetLogs(json_file)]
    /\ UNCHANGED <<llm, events, csv_file, json_file, logged, enable_responsible_ai>>
    /\ UNCHANGED retrieval_vars

\* The session starts with a monitor without events, a logger on a fresh log
\* directory and ENABLE_RESPONSIBLE_AI at its default.
InitLogging ==
    /\ events = <<>>
    /\ csv_file = <<>>
    /\ json_file = NoFile
    /\ logged = <<>>
    /\ returned = NoReturn
    /\ enable_responsible_ai = TRUE

Init ==
    /\ llm \in BOOLEAN
    /\ retriever = NoRetriever
    /\ current_strategy = None
    /\ call = NoCall
    /\ activation = NoActivation
    /\ observed = NoObservation
    /\ first_index = NoBM25
    /\ InitLogging

Next ==
    \/ SwitchStrategy
    \/ Retrieve
    \/ Return
    \/ GetStrategyInfo
    \/ ListAvailableStrategies

Spec == Init /\ [][Next]_vars

\* The session as the monitor and the logger see it.
NextLogging ==
    \/ AskQuestion
    \/ ToggleResponsibleAI
    \/ ClearEvents
    \/ GetLogsCall

SpecLogging == Init /\ [][NextLogging]_vars

\* ------------------------------------------------------------------ claims

\* The fingerprints of the passages of a list.
Fingerprints(docs) == {Fingerprint(docs[i]) : i \in 1..Len(docs)}

\* The Vector Index's answer for the question, cut to the k of the call.
TopK == Prefix(call.store[Query].docs, call.k)

\* C1: whatever the strategy and whatever path it took, a retrieve(q, k) that
\* returns a list returns at most k passages.
C1_AtMostK == call.active /\ ~call.raised => Len(call.docs) <= call.k

\* C1 witness: Hybrid merged more than k distinct passages and returned k.
C1_Witness ==
    /\ call.active /\ retriever.name = "hybrid" /\ retriever.bm25.built
    /\ call.store[Query].ok /\ call.lex.ok /\ ~call.raised
    /\ Cardinality(Fingerprints(TopK) \cup Fingerprints(Prefix(call.lex.docs, call.k))) > call.k
    /\ Len(call.docs) = call.k

\* C2: when every similarity search for the question succeeds, retrieve returns
\* a list, whatever the client and the Lexical Index do and whatever happens
\* to the searches for other texts.
C2_NeverRaises ==
    call.active /\ (\A i \in 1..Len(call.searches) :
                        call.searches[i].text = Query => call.searches[i].ok)
        => ~call.raised

\* C2 witness: a search for a text of the client failed, the client itself
\* answered, and the call returned the fallback's list.
C2_Witness ==
    /\ call.active /\ ~call.raised /\ call.reply.ok
    /\ \E i \in 1..Len(call.searches) : ~call.searches[i].ok
    /\ call.docs # <<>>

\* C3: when the similarity search for the question fails, retrieve raises.
C3_SurfacesFailure == call.active /\ ~call.store[Query].ok => call.raised

\* C4: Semantic issues one search, for (q, k), and returns its list as it is.
C4_SemanticVerbatim ==
    call.active /\ retriever.name = "semantic" =>
        /\ Len(call.searches) = 1
        /\ call.searches[1].text = Query /\ call.searches[1].n = call.k
        /\ call.searches[1].ok => ~call.raised /\ call.docs = TopK

\* C4 witness: Semantic returned a list of several passages, two of them with
\* the same fingerprint.
C4_Witness ==
    /\ call.active /\ retriever.name = "semantic" /\ call.store[Query].ok
    /\ Len(call.docs) >= 2
    /\ Cardinality(Fingerprints(call.docs)) < Len(call.docs)

\* The score Hybrid gave to the passages with fingerprint fp.
HybridScore(fp) ==
    LET doc_dict == AddScores(AddScores(<<>>, TopK, retriever.semantic_weight),
                              Prefix(call.lex.docs, call.k), retriever.keyword_weight)
    IN doc_dict[DictIndex(doc_dict, fp)].score

\* C5: Hybrid with a built Lexical Index and positive weights: a fingerprint of
\* both top-k lists scores semantic_weight + keyword_weight, a fingerprint of
\* one list at most that list's weight, and in the output the passages of both
\* lists precede the passages of one list.
C5_ConsensusWins ==
    /\ call.active /\ retriever.name = "hybrid" /\ retriever.bm25.built
    /\ call.store[Query].ok /\ call.lex.ok
    /\ retriever.semantic_weight > 0 /\ retriever.keyword_weight > 0
    => LET vec == Fingerprints(TopK)
           lex == Fingerprints(Prefix(call.lex.docs, call.k))
       IN /\ \A fp \in vec \cap lex :
                HybridScore(fp) = retriever.semantic_weight + retriever.keyword_weight
          /\ \A fp \in vec \ lex : HybridScore(fp) <= retriever.semantic_weight
          /\ \A fp \in lex \ vec : HybridScore(fp) <= retriever.keyword_weight
          /\ \A i, j \in 1..Len(call.docs) :
                /\ Fingerprint(call.docs[i]) \in vec \cap lex
                /\ Fingerprint(call.docs[j]) \notin vec \cap lex
                => i < j

\* C6: Hybrid without a Lexical Index does what Semantic does on the same
\* index: the same list, or the same failure.
C6_HybridAsSemantic ==
    call.active /\ retriever.name = "hybrid" /\ ~retriever.bm25.built =>
        LET semantic == SemanticRetrieve(SemanticRetriever(llm), call.store, Query, call.k)
        IN call.raised = semantic.raised /\ call.docs = semantic.docs

\* The position of the passage with fingerprint fp in the returned list, 0
\* when the list has none.
Position(fp) ==
    IF \E i \in 1..Len(call.docs) : Fingerprint(call.docs[i]) = fp
    THEN CHOOSE i \in 1..Len(call.docs) : Fingerprint(call.docs[i]) = fp
    ELSE 0

\* The answer of the Vector Index to the i-th search of the call.
Answer(i) == Prefix(call.store[call.searches[i].text].docs, call.searches[i].n)

\* The number of searches of the call (one per query variant, one per
\* sub-question) whose answer holds a passage with fingerprint fp.
Retrievals(fp) ==
    Cardinality({i \in 1..Len(call.searches) : fp \in Fingerprints(Answer(i))})

\* Every search of the call succeeded: the strategy took its normal path.
AllSearchesOk == \A i \in 1..Len(call.searches) : call.searches[i].ok

\* The passages are ranked by Retrievals: one found by more searches is
\* returned whenever one found by fewer is, and before it.
RankedByRetrievals ==
    \A a, b \in UNION {Fingerprints(Answer(i)) : i \in 1..Len(call.searches)} :
        Retrievals(a) > Retrievals(b) /\ Position(b) # 0
            => Position(a) # 0 /\ Position(a) < Position(b)

\* C7: Query Expansion ranks each fingerprint by the number of query variants
\* (the question and its paraphrases) whose answer holds it; so what every
\* variant returned comes strictly before what one variant returned.
C7_RankedByVariants ==
    call.active /\ retriever.name = "query_expansion" /\ AllSearchesOk => RankedByRetrievals

\* C8: Multi-Hop ranks each fingerprint by the number of distinct sub-questions
\* whose answer holds it; so what 2 of 3 sub-questions returned comes before
\* what one of them returned.
C8_RankedByHops ==
    call.active /\ retriever.name = "multihop" /\ AllSearchesOk => RankedByRetrievals

\* The candidate pool of Context Re-Ranking and the score of its i-th passage.
Pool == Prefix(call.store[Query].docs, retriever.rerank_top_k)

Score(i) == ScoreRelevance(retriever, call.replies[i])

PoolIndex(d) == CHOOSE i \in 1..Len(Pool) : Pool[i] = d

\* Context Re-Ranking took its normal path on a pool that is not empty.
ReRanked ==
    call.active /\ retriever.name = "reranking" /\ call.store[Query].ok /\ Pool # <<>>

\* C9: the output of Context Re-Ranking is the pool in descending order of
\* score, cut to k (no passage comes before one with a greater score, none is
\* left out for one with a smaller score); strictly decreasing scores give the
\* pool's order, strictly increasing scores its reverse.
C9_SortedByScore ==
    ReRanked =>
        /\ ~call.raised
        /\ Len(call.docs) = Min(call.k, Len(Pool))
        /\ Range(call.docs) \subseteq Range(Pool)
        /\ \A i, j \in 1..Len(call.docs) :
              i < j => ~FloatLt(Score(PoolIndex(call.docs[i])), Score(PoolIndex(call.docs[j])))
        /\ \A d \in Range(call.docs), o \in Range(Pool) \ Range(call.docs) :
              ~FloatLt(Score(PoolIndex(d)), Score(PoolIndex(o)))
        /\ (\A i \in 1..(Len(Pool) - 1) : FloatLt(Score(i + 1), Score(i)))
              => call.docs = Prefix(Pool, call.k)
        /\ (\A i \in 1..(Len(Pool) - 1) : FloatLt(Score(i), Score(i + 1)))
              => call.docs = Prefix(ReverseSeq(Pool), call.k)

\* The filter Self-Query extracted is a JSON object with at least one member.
Filtered ==
    /\ call.active /\ retriever.name = "self_query" /\ retriever.llm
    /\ call.store[Query].ok
    /\ call.filter.ok /\ call.filter.content.kind = "object"
    /\ DOMAIN call.filter.content.map # {}

\* The candidate carries a filter field with another value than required.
Disqualified(d) ==
    \E key \in DOMAIN call.filter.content.map :
        /\ key \in DOMAIN Metadata(d)
        /\ Metadata(d)[key] # call.filter.content.map[key]

Survivors == SelectSeq(TopK, LAMBDA d : ~Disqualified(d))

\* C10: with a non-empty filter, Self-Query returns the candidates that are not
\* disqualified, in the index's order; when none is left, all the candidates.
C10_FilterOrFallback ==
    Filtered => /\ ~call.raised
                /\ call.docs = IF Survivors # <<>> THEN Prefix(Survivors, call.k) ELSE TopK

\* C10 witness: one candidate was discarded, one was kept although it lacks
\* the field, one was kept because it matches.
C10_Witness ==
    /\ Filtered
    /\ \E d \in Range(TopK) : Disqualified(d)
    /\ \E d \in Range(call.docs) : DOMAIN call.filter.content.map \cap DOMAIN Metadata(d) = {}
    /\ \E d \in Range(call.docs) : DOMAIN call.filter.content.map \subseteq DOMAIN Metadata(d)
    /\ call.docs = Survivors

\* C11: StrategyFactory.create with an identifier that is not registered
\* returns a Semantic instance and does not raise, whatever the options.
C11_UnknownGivesSemantic ==
    activation.made /\ Lower(activation.name) \notin Range(StrategyNames)
        => activation.created /\ retriever = SemanticRetriever(llm)

\* C12: list_available_strategies answers the same list on every call, in
\* whatever state the manager is: the six identifiers, none twice, in the
\* order of the registry.
C12_StableListing ==
    observed.op = "list_available_strategies" =>
        /\ Cardinality(Range(observed.value)) = Len(observed.value)
        /\ {"semantic", "hybrid", "query_expansion", "reranking", "self_query", "multihop"}
              \subseteq Range(observed.value)
        /\ observed.value = StrategyNames

\* C12 witness: the listing asked of a manager whose last activation failed
\* to construct the strategy.
C12_Witness ==
    /\ observed.op = "list_available_strategies"
    /\ activation.made /\ ~activation.created

\* The Lexical Index the bootstrap of the last activation built.
Bootstrapped ==
    IF activation.pulled /\ activation.boot.ok
    THEN [built |-> TRUE, corpus |-> activation.boot.corpus]
    ELSE NoBM25

\* C13: the active strategy is the instance the last activation constructed:
\* its Lexical Index is the one the bootstrap of that activation built (none
\* when there was no bootstrap or it failed), never one of an earlier
\* instance, and every activation of Hybrid pulls from the Vector Index anew.
C13_FreshInstance ==
    activation.made =>
        /\ retriever.bm25 = Bootstrapped
        /\ activation.pulled = (activation.created /\ Lower(activation.name) = "hybrid")

\* C13 witness: after hybrid, semantic, hybrid the second Hybrid instance does
\* not hold the index that was built for the first.
C13_Witness ==
    /\ retriever.name = "hybrid" /\ first_index.built
    /\ retriever.bm25 # first_index

\* The manager holds a strategy of one of the six classes.
Active == retriever # NoRetriever /\ retriever.name \in Range(StrategyNames)

\* C14: after an initialize_strategy or switch_strategy call the manager holds
\* a strategy, whatever failed; when the construction raised, it is a Semantic
\* instance and current_strategy is "semantic".
C14_FallbackToSemantic ==
    activation.made =>
        /\ Active
        /\ ~activation.created =>
               retriever = SemanticRetriever(llm) /\ current_strategy = "semantic"

\* C14 witness: a registered class was asked for with an option it does not
\* take, and the Semantic strategy is active.
C14_Witness ==
    /\ activation.made /\ ~activation.created
    /\ Lower(activation.name) = "multihop"
    /\ retriever.name = "semantic" /\ current_strategy = "semantic"

\* C15: the manager starts with no strategy; an initialize_strategy call and
\* a retrieve call (which initializes when no strategy is active) leave it
\* with one; and no step takes the strategy away again.
C15_ActiveForGood ==
    /\ retriever = NoRetriever /\ current_strategy = None
    /\ [](activation.made \/ call.active => Active)
    /\ [](call.active => activation.made)
    /\ [][Active => Active']_vars

\* C15 witness: a retrieve call on a manager without a strategy activated the
\* strategy named by the environment and delegated to it.
C15_Witness ==
    /\ call.active /\ ~activation.given
    /\ Active /\ current_strategy = "query_expansion"

\* C16: get_strategy_info changes nothing of the manager; a second call right
\* after a first returns the same descriptor; with no strategy active the
\* descriptor is the "not initialized" one.
C16_DescribeIdempotent ==
    /\ [][observed'.op = "get_strategy_info"
            => UNCHANGED <<llm, retriever, current_strategy, call, activation>>]_vars
    /\ [][observed.op = "get_strategy_info" /\ observed'.op = "get_strategy_info"
            => observed' = observed]_vars
    /\ [](observed.op = "get_strategy_info" /\ retriever = NoRetriever
            => observed.value = [strategy |-> "none", status |-> "not initialized"])
    /\ [](observed.op = "get_strategy_info" /\ retriever # NoRetriever
            => observed.value.name = retriever.name)

\* C16 witness: the descriptor of a Hybrid strategy whose bootstrap failed.
C16_Witness ==
    /\ observed.op = "get_strategy_info"
    /\ retriever.name = "hybrid" /\ ~retriever.bm25.built
    /\ observed.value.semantic_weight = 6 /\ observed.value.keyword_weight = 4

\* C17: a retrieve call that returns fewer than k passages does so only when
\* the Vector Index holds fewer than k candidates for the question.
C17_ShortOnlyWhenExhausted ==
    /\ call.active /\ ~call.raised /\ call.store[Query].ok
    /\ Len(call.docs) < call.k
    => Len(call.store[Query].docs) < call.k

\* A call of the Language Model Client raised during the retrieve call.
ClientRaised ==
    /\ call.active /\ retriever.llm
    /\ CASE retriever.name \in {"query_expansion", "multihop"} -> ~call.reply.ok
          [] retriever.name = "self_query" -> ~call.filter.ok
          [] retriever.name = "reranking" ->
                 \E i \in 1..Len(call.replies) : ~call.replies[i].ok
          [] OTHER -> FALSE

\* C18: when a call of the Language Model Client raises, the strategy returns
\* what Semantic returns: the top k of the Vector Index for the question, in
\* the order of the index.
C18_ClientFailureGivesSemantic ==
    ClientRaised /\ call.store[Query].ok => ~call.raised /\ call.docs = TopK

\* C19: Query Expansion without paraphrases (the client raised, or there is
\* none) issues one search, for the question, and counts every passage once.
C19_NoParaphraseOneSearch ==
    /\ call.active /\ retriever.name = "query_expansion"
    /\ ~retriever.llm \/ ~call.reply.ok
    /\ call.store[Query].ok
    => /\ Len(call.searches) = 1
       /\ LET doc_dict == ExpansionLoop(call.store,
                                         <<Query>> \o GenerateParaphrases(retriever, call.reply, Query),
                                         call.k, <<>>, <<>>).doc_dict
          IN \A i \in 1..Len(doc_dict) : doc_dict[i].score = 1

\* The orders in which the texts of s can be processed.
Orders(s) ==
    {[i \in 1..Len(s) |-> s[p[i]]] :
        p \in {f \in [1..Len(s) -> 1..Len(s)] : Cardinality(Range(f)) = Len(s)}}

\* The texts Query Expansion and Multi-Hop search for in the call, and the
\* list the strategy returns when it processes them in the order texts.
Variants ==
    IF retriever.name = "query_expansion"
    THEN <<Query>> \o GenerateParaphrases(retriever, call.reply, Query)
    ELSE DecomposeQuestion(retriever, call.reply, Query)

Merged(texts) ==
    IF retriever.name = "query_expansion"
    THEN TopByScore(ExpansionLoop(call.store, texts, call.k, <<>>, <<>>).doc_dict, call.k)
    ELSE TopByHops(HopLoop(call.store, texts, 1, call.k, <<>>, <<>>).doc_dict, call.k)

\* C20: Query Expansion and Multi-Hop return the same list in whatever order
\* the searches for the variants (the sub-questions) are processed and merged.
C20_OrderIndependent ==
    /\ call.active /\ retriever.name \in {"query_expansion", "multihop"}
    /\ AllSearchesOk
    => \A texts \in Orders(Variants) : Merged(texts) = call.docs

\* The candidates of the call in the order of their discovery, each with its
\* ranking value, when the strategy merged or re-ranked (its normal path).
Candidates ==
    CASE retriever.name = "hybrid" ->
           LET doc_dict == AddScores(AddScores(<<>>, TopK, retriever.semantic_weight),
                                     Prefix(call.lex.docs, call.k), retriever.keyword_weight)
           IN [i \in 1..Len(doc_dict) |->
                  [doc |-> doc_dict[i].doc, value |-> Num(doc_dict[i].score)]]
      [] retriever.name = "query_expansion" ->
           LET doc_dict == ExpansionLoop(call.store, Variants, call.k, <<>>, <<>>).doc_dict
           IN [i \in 1..Len(doc_dict) |->
                  [doc |-> doc_dict[i].doc, value |-> Num(doc_dict[i].score)]]
      [] retriever.name = "multihop" ->
           LET doc_dict == HopLoop(call.store, Variants, 1, call.k, <<>>, <<>>).doc_dict
           IN [i \in 1..Len(doc_dict) |->
                  [doc |-> doc_dict[i].doc, value |-> Num(Len(doc_dict[i].hops))]]
      [] retriever.name = "reranking" ->
           [i \in 1..Len(Pool) |-> [doc |-> Pool[i], value |-> Score(i)]]
      [] OTHER -> <<>>

\* The call merged or re-ranked: every search succeeded, and for Hybrid the
\* Lexical Index is built and answered.
Ranked ==
    /\ call.active /\ ~call.raised
    /\ retriever.name \in {"hybrid", "query_expansion", "reranking", "multihop"}
    /\ AllSearchesOk
    /\ retriever.name = "hybrid" => retriever.bm25.built /\ call.lex.ok

Discovery(d) == CHOOSE i \in 1..Len(Candidates) : Candidates[i].doc = d

\* C21: in Hybrid, Query Expansion, Re-Ranking and Multi-Hop the output is
\* sorted by non-increasing ranking value (score or count): no passage comes
\* before one with a greater value, and of two passages with equal ranking
\* value the one discovered first comes first.
C21_SortedStable ==
    Ranked =>
        /\ Range(call.docs) \subseteq {Candidates[i].doc : i \in 1..Len(Candidates)}
        /\ \A i, j \in 1..Len(call.docs) :
              i < j =>
                 LET a == Candidates[Discovery(call.docs[i])].value
                     b == Candidates[Discovery(call.docs[j])].value
                 IN /\ ~FloatLt(a, b)
                    /\ a = b => Discovery(call.docs[i]) < Discovery(call.docs[j])

\* C22: when the bootstrap of the Lexical Index fails (the bulk pull or the
\* index build raises), the Hybrid strategy is activated all the same, with no
\* Lexical Index, and recorded under the identifier asked for; its retrieve is
\* then the plain similarity search for the query: the top-k of the Vector
\* Index, or the failure of the Vector Index.
C22_BootFailureKeepsHybrid ==
    activation.made /\ activation.pulled /\ ~activation.boot.ok =>
        /\ retriever.name = "hybrid" /\ ~retriever.bm25.built
        /\ current_strategy = activation.name /\ Lower(current_strategy) = "hybrid"
        /\ call.active =>
              /\ call.raised = ~call.store[Query].ok
              /\ call.store[Query].ok => call.docs = TopK
              /\ \A i \in 1..Len(call.searches) :
                    call.searches[i].text = Query /\ call.searches[i].n = call.k

C22_Witness ==
    /\ call.active /\ activation.pulled /\ ~activation.boot.ok
    /\ ~call.raised /\ Len(call.docs) >= 2

\* C23: the filter of Self-Query uses the configured metadata_fields only: a
\* candidate is discarded only for a configured field it carries with another
\* value than required, never for a key of the LLM's output that is not a
\* configured field.
C23_OnlyConfiguredFields ==
    Filtered =>
        \A d \in Range(TopK) \ Range(call.docs) :
            \E key \in DOMAIN call.filter.content.map \cap retriever.metadata_fields :
                /\ key \in DOMAIN Metadata(d)
                /\ Metadata(d)[key] # call.filter.content.map[key]

\* Self-Query got no filter mapping from the client: no client is configured,
\* the call failed, or the output is no JSON or a JSON value that is no object.
NoFilterMapping ==
    /\ call.active /\ retriever.name = "self_query" /\ call.store[Query].ok
    /\ \/ ~retriever.llm
       \/ ~call.filter.ok
       \/ call.filter.content.kind # "object"

\* C24: when the LLM output does not parse as a filter mapping, no LLM is
\* configured or the LLM call fails, Self-Query applies no filter: it returns
\* the top-k of the Vector Index for the query, in the index's order.
C24_NoMappingNoFilter ==
    NoFilterMapping => ~call.raised /\ call.docs = TopK

\* C24 witness: the client answered a non-empty JSON array and two passages
\* were returned.
C24_Witness ==
    /\ NoFilterMapping /\ retriever.llm /\ call.filter.ok
    /\ call.filter.content.kind = "array" /\ Len(call.docs) >= 2

\* C25: every relevance score Context Re-Ranking sorts by lies in 0..10: a
\* parsed score is clamped into [0, 10], an unparsable one is 5.0, and with no
\* client every passage scores 1.0 and the output is the pool in its order, cut
\* to k.
C25_ScoreInRange ==
    ReRanked =>
        /\ \A i \in 1..Len(Pool) :
              /\ ~Score(i).nan /\ 0 <= Score(i).v /\ Score(i).v <= 10
              /\ retriever.llm /\ call.replies[i].ok
                 /\ ~ParseFloat(Strip(call.replies[i].content)).ok => Score(i) = Num(5)
              /\ ~retriever.llm => Score(i) = Num(1)
        /\ ~retriever.llm => call.docs = Prefix(Pool, call.k)

\* C26: a retrieve call on a manager with an active strategy leaves the
\* strategy instance (its class, its parameters, its Lexical Index) and
\* current_strategy as they are; the strategy and the identifier change only in
\* an initialize_strategy or switch_strategy call, or in the retrieve call that
\* finds no strategy and initializes.  (No code writes doc.metadata.)
C26_RetrieveKeepsState ==
    [][/\ ~call.active /\ call'.active /\ retriever # NoRetriever
          => retriever' = retriever /\ current_strategy' = current_strategy
       /\ retriever' # retriever \/ current_strategy' # current_strategy
          => /\ activation'.made
             /\ \/ ~call.active /\ ~call'.active
                \/ retriever = NoRetriever /\ ~activation'.given]_vars

\* C26 witness: a retrieve call on an active Hybrid strategy with a Lexical
\* Index merged the two lists.
C26_Witness ==
    /\ call.active /\ activation.given /\ ~call.raised
    /\ retriever.name = "hybrid" /\ retriever.bm25.built /\ call.lex.ok
    /\ Len(call.docs) >= 2

\* C27: whenever the manager holds a strategy, current_strategy in lower case
\* is the name of the class of that strategy; so after an activation with an
\* identifier that is not registered, which activates Semantic, it is
\* "semantic".
C27_IdentifierNamesStrategy ==
    Active => Lower(current_strategy) = retriever.name

\* The step is a call of filter_response (the question handler with the
\* filtering enabled, on a response of the chain).
Filters == returned'.op = "ask" /\ returned'.enabled /\ returned'.success

\* C28: a filter_response call appends exactly one event to the monitor's
\* log; it returns (response, False, None) when check_content_safety reports
\* the response safe and (the apology, True, the reason) otherwise; the
\* event's response_filtered is the was_filtered returned; and the events
\* stay in the log until clear_events.
C28_OneEventPerCall ==
    [][/\ Filters =>
             LET safety == CheckContentSafety(llm, returned'.response, returned'.verdict)
                 event == events'[Len(events')]
             IN /\ Len(events') = Len(events) + 1
                /\ SubSeq(events', 1, Len(events)) = events
                /\ event.response_filtered = returned'.was_filtered
                /\ event.original_response = returned'.response
                /\ safety.is_safe =>
                      /\ returned'.filtered_response = returned'.response
                      /\ ~returned'.was_filtered /\ returned'.reason = NoText
                /\ ~safety.is_safe =>
                      /\ returned'.filtered_response = Apology
                      /\ returned'.was_filtered /\ returned'.reason = safety.reason
       /\ ~Filters /\ returned'.op # "clear_events" => events' = events]_vars

\* C28 witness: the monitor logged a response it let through and then one it
\* filtered on the client's verdict.
C28_Witness ==
    /\ returned.op = "ask" /\ returned.enabled /\ returned.success
    /\ returned.was_filtered /\ returned.reason = <<"LLM safety check failed">>
    /\ Len(events) >= 2 /\ ~events[1].response_filtered

\* C29: the CSV row logged for a question asked with the filtering enabled has
\* response_filtered = True exactly when the response to that question was
\* filtered, whatever happened to the responses to earlier questions.
C29_RowMarksOwnResponse ==
    returned.op = "ask" /\ returned.enabled =>
        csv_file[Len(csv_file)].response_filtered = PyStr(returned.was_filtered)

\* C30: get_logs() returns the entries passed to log_query so far, equal to
\* them and in their order: each log_query call adds its entry and keeps the
\* earlier ones.
C30_RoundTrip ==
    GetLogs(json_file) = logged

====
